---- MODULE Spec2Model ----
(***************************************************************************)
(* Calendar synchronisation and OAuth credential lifecycle of the study    *)
(* collaboration platform: src/src/lib/google-calendar.ts and the          *)
(* /api/calendar/* route handlers.                                         *)
(*                                                                         *)
(* Every request handler is an async function.  One action of the model    *)
(* is one run-to-the-next-await segment of a handler: it consumes the      *)
(* outcome of the call the handler was waiting for, runs the synchronous   *)
(* code that follows, and issues the next awaited call.  Requests          *)
(* interleave only at awaits, as on the Node.js event loop.                *)
(***************************************************************************)
EXTENDS Integers, Sequences, FiniteSets, TLC

\* ------------------------------------------------------------------ bounds
MaxNow == 2          \* the clock runs from 1 to MaxNow

\* ------------------------------------------------------- program constants
\* Time is counted in units of 15 minutes.
StateWindow == 1     \* 15 * 60 * 1000 ms
DefaultExpiry == 4   \* 3600 * 1000 ms

\* ----------------------------------------------------------------- domains
Users == {"u1", "u2", "u3"}
Reqs == {"r1", "r2"}
EventIds == {1, 2}

Null == [null |-> TRUE]

\* an expiry_date or timestamp that is undefined
NoTime == -1

\* the row variable of a lookup that has not answered
Unread == [unread |-> TRUE]

\* user.email is nullable in the schema; u3 is a user without an email
Email(u) == IF u = "u3" THEN Null ELSE [addr |-> u]

\* an access or refresh token: the user it was issued for and its serial
Token(u, n) == [u |-> u, n |-> n]

VARIABLES
  now,          \* Date.now()
  cred,         \* GoogleCalendarCredential table, keyed by userId
  rows,         \* number of GoogleCalendarCredential rows of each user
  events,       \* CalendarEvent table
  attendees,    \* EventAttendee table, keyed by (eventId, userId)
  nEvents,      \* number of CalendarEvent rows created so far
  oauth2Client, \* the module-level OAuth2 client of google-calendar.ts
  listClient,   \* the module-level OAuth2 client of the events route
  issued,       \* provider: token responses issued per user
  gcal,         \* provider: the external event of each local event
  handed,       \* the state parameters the auth-url route has handed out
  req           \* the requests in flight, one per slot

vars == <<now, cred, rows, events, attendees, nEvents, oauth2Client, listClient,
          issued, gcal, handed, req>>

\* ------------------------------------------------------------ request slot
\* One run of getCalendarClient (or of the credential section of the events
\* route): its argument, who called it, and what it did.
NoRun ==
  [user |-> "", for |-> "", read |-> Unread, tRead |-> NoTime, nRefresh |-> 0,
   tok |-> Null, tRefresh |-> NoTime, upd |-> Null, wrote |-> Null, ret |-> ""]

IdleReq ==
  [kind |-> "none", pc |-> "idle", user |-> "", ev |-> 0, atts |-> <<>>,
   i |-> 0, g |-> NoRun, with |-> "", ins |-> Null, snap |-> Null,
   resp |-> "", calls |-> {}, tried |-> {}, orgRow |-> "", result |-> Null,
   group |-> Null]

Set(r, f) == [req EXCEPT ![r] = f]

\* a provider call as the provider sees it: the operation, the user the
\* handler makes it for, and the user whose credential the client carried
Call(op, for, with) == [op |-> op, for |-> for, with |-> with]

\* the user a client credential belongs to
Owner(client) == IF client = Null THEN "" ELSE client.access_token.u

Finish(rec, result) == [rec EXCEPT !.pc = "done", !.result = result]

\* no finished request is waiting to be dropped
Quiet == \A r \in Reqs : req[r].pc # "done"

\* request r is waiting at the await named pc
At(r, pc) == Quiet /\ req[r].pc = pc

\* a request takes the first free slot: r1 is the request that came first
Free(r) ==
  /\ At(r, "idle")
  /\ r = "r2" => req["r1"].pc # "idle"

TypeOK ==
  /\ now \in 1..MaxNow
  /\ nEvents \in EventIds
  /\ \A u \in Users : issued[u] \in 0..Cardinality(Reqs)
  /\ \A r \in Reqs : req[r].g.nRefresh \in 0..1
  /\ \A u \in Users : rows[u] \in Nat /\ (rows[u] = 0 <=> cred[u] = Null)

\* The server starts on a database earlier requests have filled: each user is
\* unconnected or holds a credential row, expired or still valid (u3 holds
\* one that expires at the next tick), and the event table
\* holds one event of u1 with u2 and u3 invited, synchronised to u1's
\* calendar or not.
InitRows(u) ==
  IF u = "u3" THEN { [accessToken |-> Token(u, 0),
                      refreshToken |-> Token(u, 0), expiryDate |-> 1] }
  ELSE {Null} \cup { [accessToken |-> Token(u, 0), refreshToken |-> Token(u, 0),
                      expiryDate |-> e] : e \in {0, 2} }

InitCreds ==
  { f \in [Users -> UNION { InitRows(u) : u \in Users }] :
      \A u \in Users : f[u] \in InitRows(u) }

Unsynced ==
  [row |-> [creatorId |-> "u1", googleEventId |-> Null, groupId |-> [grp |-> 1],
            status |-> "CONFIRMED"], ext |-> Null]

Synced ==
  [row |-> [creatorId |-> "u1", googleEventId |-> [g |-> 1],
            groupId |-> [grp |-> 1], status |-> "CONFIRMED"],
   ext |-> [cal |-> "u1", id |-> [g |-> 1]]]

InitEvents == {Unsynced, Synced}

InitStore(creds, evs) ==
  /\ now = 1
  /\ cred \in creds
  /\ rows = [u \in Users |-> IF cred[u] = Null THEN 0 ELSE 1]
  /\ \E ie \in evs :
       /\ nEvents = 1
       /\ events = [e \in EventIds |-> IF e = 1 THEN ie.row ELSE Null]
       /\ attendees = [e \in EventIds |->
            [u \in Users |-> IF e = 1 /\ u # "u1" THEN "PENDING" ELSE "NONE"]]
       /\ gcal = [e \in EventIds |-> IF e = 1 THEN ie.ext ELSE Null]
  /\ oauth2Client = Null
  /\ listClient = Null
  /\ issued = [u \in Users |-> 0]
  /\ handed = {}
  /\ req = [r \in Reqs |-> IdleReq]

Init == InitStore(InitCreds, InitEvents)

\* ------------------------------------------------------------------- clock
Tick ==
  /\ Quiet
  /\ now < MaxNow
  /\ now' = now + 1
  /\ UNCHANGED <<cred, rows, events, attendees, nEvents, oauth2Client, listClient,
                 issued, gcal, handed, req>>

\* ---------------------------------------------------------------- provider
\* Token endpoint, refresh grant: a new access token with a lifetime, and a
\* new refresh token only when the provider rotates it.
Lifetimes == {1}

RefreshResponses(u) ==
       { [access_token |-> Token(u, issued[u] + 1),
          refresh_token |-> rt,
          expiry_date |-> now + l] :
           rt \in {Null, Token(u, issued[u] + 1)}, l \in Lifetimes }

\* a failed refresh is transient (network, 5xx) or final (invalid_grant)
RefreshFailures == {"transient", "revoked"}

\* events.insert response data: a created event carries its id and iCalUID
InsertResponses(e) == { [id |-> [g |-> e], iCalUID |-> [uid |-> e]] }

\* Token endpoint, authorization-code grant: a full response, a response
\* with an access token only (no refresh token, no expiry), or a response
\* without an access token
CodeResponses(u) ==
       { [access_token |-> Token(u, issued[u] + 1),
          refresh_token |-> Token(u, issued[u] + 1),
          expiry_date |-> now + l] : l \in Lifetimes }
       \cup
       { [access_token |-> at, refresh_token |-> Null, expiry_date |-> NoTime] :
           at \in {Null, Token(u, issued[u] + 1)} }

\* ------------------------------------------- createCalendarEvent: helpers
\* oauth2Client.setCredentials({access_token, refresh_token, expiry_date})
ClientCreds(row) ==
  [access_token |-> row.accessToken, refresh_token |-> row.refreshToken,
   expiry_date |-> row.expiryDate]

\* credentials.expiryDate.getTime() < Date.now()
IsExpired(row, t) == row.expiryDate < t

\* an update that stores the new access token and keeps the old expiry out
RefreshUpdateNoExpiry(tok) ==
  [accessToken |-> tok.access_token, expiryDate |-> 0]

\* data of prisma.googleCalendarCredential.update after a refresh
RefreshUpdateData(tok) ==
  [accessToken |-> tok.access_token, expiryDate |-> tok.expiry_date]

ApplyUpdate(row, data) ==
  [row EXCEPT !.accessToken = data.accessToken,
              !.expiryDate = data.expiryDate]

\* the value createCalendarEvent returns: the event as it was created
ReturnNewEvent(rec) == Finish(rec, [status |-> 200, event |-> rec.ev])

\* the route's catch: createCalendarEvent threw
CreateFailed(rec) == Finish(rec, [status |-> 500, event |-> 0])

\* a catch that rethrows the sync error to the route
SyncCatchRethrows(rec) == CreateFailed(rec)

\* the inner catch of createCalendarEvent (a sync error is only logged)
SyncCatch(rec) == ReturnNewEvent(rec)

\* the next attendee of the loop that is not the creator; 0 when none is left
NextIndex(rec) ==
  LET later == { j \in (rec.i + 1)..Len(rec.atts) : rec.atts[j] # rec.user }
  IN IF later = {} THEN 0
     ELSE CHOOSE j \in later : \A k \in later : j <= k

\* for (const attendee of newEvent.attendees): skip the creator, look the
\* next attendee's credential up, or leave the loop and return
LoopNext(rec) ==
  IF NextIndex(rec) = 0 THEN ReturnNewEvent(rec)
  ELSE [rec EXCEPT !.pc = "c_attLookup", !.i = NextIndex(rec)]

\* a per-attendee catch that gives the whole loop up
AttendeeCatchAborts(rec) == ReturnNewEvent(rec)

\* the per-attendee catch: log and go on with the next attendee
AttendeeCatch(rec) == LoopNext(rec)

StartRun(rec, u, for) ==
  [rec EXCEPT !.pc = "g_lookup",
              !.g = [NoRun EXCEPT !.user = u, !.for = for, !.ret = "running"]]

\* updateEventResponse returns updatedAttendee, synced or not
ReturnUpdatedAttendee(rec) == Finish(rec, [status |-> 200, sync |-> "none"])

\* callers that let the error of getCalendarClient fail the request
AfterThrowFails(rec) ==
  LET rec2 == [rec EXCEPT !.g.ret = "throw"]
  IN CASE rec.g.for = "org" -> SyncCatch(rec2)
       [] rec.g.for = "att" -> AttendeeCatch(rec2)
       [] OTHER -> Finish(rec2, [status |-> 500])

\* getCalendarClient threw: what its caller does with the error
AfterThrow(rec) ==
  LET rec2 == [rec EXCEPT !.g.ret = "throw"]
  IN CASE rec.g.for = "org" -> SyncCatch(rec2)
       [] rec.g.for = "att" -> AttendeeCatch(rec2)
       [] rec.g.for = "uer" -> ReturnUpdatedAttendee(rec2)
       [] OTHER -> Finish(rec2, [status |-> 200, sync |-> "not_updated"])

\* getCalendarClient returned google.calendar({auth: oauth2Client}): the
\* caller issues its provider call through the shared client
AfterClient(rec, client) ==
  LET rec2 == [rec EXCEPT !.g.ret = "client", !.with = Owner(client)]
  IN CASE rec.g.for = "org" ->
            [rec2 EXCEPT !.pc = "c_insert",
               !.calls = @ \cup {Call("insert", rec.user, Owner(client))}]
       [] rec.g.for = "att" ->
            [rec2 EXCEPT !.pc = "c_import",
               !.calls = @ \cup {Call("import", rec.g.user, Owner(client))}]
       [] rec.g.for = "uer" ->
            [rec2 EXCEPT !.pc = "u_get",
               !.calls = @ \cup {Call("get", rec.g.user, Owner(client))}]
       [] OTHER ->
            [rec2 EXCEPT !.pc = "r_get",
               !.calls = @ \cup {Call("get", rec.g.user, Owner(client))}]

\* --------------------------------------------------------- getCalendarClient
\* findUnique has answered: no row throws; otherwise the row is installed in
\* the shared client and, when it is expired, the refresh call is issued
GccLookupDone(r) ==
  LET rec == req[r]
      u == rec.g.user
      row == cred[u]
      rec2 == [rec EXCEPT !.g.read = row, !.g.tRead = now]
  IN /\ At(r, "g_lookup")
     /\ \/ /\ row = Null
           /\ req' = Set(r, AfterThrow(rec2))
           /\ UNCHANGED oauth2Client
        \/ /\ row # Null
           /\ oauth2Client' = ClientCreds(row)
           /\ IF IsExpired(row, now)
              THEN req' = Set(r, [rec2 EXCEPT !.pc = "g_refresh",
                         !.g.nRefresh = @ + 1,
                         !.calls = @ \cup
                            {Call("refresh", u, oauth2Client'.refresh_token.u)}])
              ELSE req' = Set(r, AfterClient(rec2, oauth2Client'))
     /\ UNCHANGED <<now, cred, rows, events, attendees, nEvents, listClient,
                    issued, gcal, handed>>

\* the findUnique of getCalendarClient itself failed
GccLookupThrows(r) ==
  /\ At(r, "g_lookup")
  /\ req' = Set(r, AfterThrow(req[r]))
  /\ UNCHANGED <<now, cred, rows, events, attendees, nEvents, oauth2Client,
                 listClient, issued, gcal, handed>>

\* refreshAccessToken resolved: the client keeps the new tokens, and the
\* update of the stored row is issued
GccRefreshOk(r) ==
  LET rec == req[r]
      u == rec.g.user
  IN /\ At(r, "g_refresh")
     /\ \E tok \in RefreshResponses(u) :
          /\ issued' = [issued EXCEPT ![u] = @ + 1]
          /\ oauth2Client' =
               [access_token |-> tok.access_token,
                refresh_token |-> IF tok.refresh_token # Null
                                  THEN tok.refresh_token
                                  ELSE rec.g.read.refreshToken,
                expiry_date |-> tok.expiry_date]
          /\ req' = Set(r, [rec EXCEPT !.pc = "g_update", !.g.tok = tok,
                               !.g.tRefresh = now,
                               !.g.upd = RefreshUpdateData(tok)])
     /\ UNCHANGED <<now, cred, rows, events, attendees, nEvents, listClient, gcal, handed>>

\* a catch that drops the stored row before it rethrows
GccRefreshFailsDeletes(r) ==
  LET rec == req[r]
  IN /\ At(r, "g_refresh")
     /\ \E why \in RefreshFailures :
          req' = Set(r, AfterThrow([rec EXCEPT !.g.tok = [failed |-> why]]))
     /\ cred' = [cred EXCEPT ![rec.g.user] = Null]
     /\ rows' = [rows EXCEPT ![rec.g.user] = 0]
     /\ UNCHANGED <<now, events, attendees, nEvents, oauth2Client,
                    listClient, issued, gcal, handed>>

\* refreshAccessToken rejected: the catch of getCalendarClient rethrows
GccRefreshFails(r) ==
  LET rec == req[r]
  IN /\ At(r, "g_refresh")
     /\ \E why \in RefreshFailures :
          req' = Set(r, AfterThrow([rec EXCEPT !.g.tok = [failed |-> why]]))
     /\ UNCHANGED <<now, cred, rows, events, attendees, nEvents, oauth2Client,
                    listClient, issued, gcal, handed>>

\* an update that stores the new access token and keeps the later expiry
GccUpdateKeepsLaterExpiry(r) ==
  LET rec == req[r]
      u == rec.g.user
  IN /\ At(r, "g_update")
     /\ \/ /\ cred[u] # Null
           /\ cred' = [cred EXCEPT ![u] =
                  [@ EXCEPT !.accessToken = rec.g.upd.accessToken,
                            !.expiryDate =
                               IF @ > rec.g.upd.expiryDate
                               THEN @ ELSE rec.g.upd.expiryDate]]
           /\ UNCHANGED rows
           /\ req' = Set(r, AfterClient([rec EXCEPT !.g.wrote = cred'[u]],
                                        oauth2Client))
        \/ /\ req' = Set(r, AfterThrow(rec))
           /\ UNCHANGED <<cred, rows>>
     /\ UNCHANGED <<now, events, attendees, nEvents, oauth2Client, listClient,
                    issued, gcal, handed>>

\* prisma update answered: it throws when the row is gone or the store fails
GccUpdateDone(r) ==
  LET rec == req[r]
      u == rec.g.user
  IN /\ At(r, "g_update")
     /\ \/ /\ cred[u] # Null
           /\ cred' = [cred EXCEPT ![u] = ApplyUpdate(@, rec.g.upd)]
           /\ UNCHANGED rows
           /\ req' = Set(r, AfterClient([rec EXCEPT !.g.wrote = cred'[u]],
                                        oauth2Client))
        \/ /\ req' = Set(r, AfterThrow(rec))
           /\ UNCHANGED <<cred, rows>>
     /\ UNCHANGED <<now, events, attendees, nEvents, oauth2Client, listClient,
                    issued, gcal, handed>>

\* ------------------------------------- POST /api/calendar/events/create
\* the users whose sessions create events: users differ only in their email,
\* so the creator is taken to be u1
Creators == {"u1"}

\* attendeeIds of the request body
AttendeeLists == { <<>>, <<"u1", "u2">>, <<"u2", "u3">> }

InList(u, list) == \E j \in 1..Len(list) : list[j] = u

\* if (!validAttendeeIds.includes(userId)) validAttendeeIds.push(userId)
ValidAttendeeIds(u, ids) == IF InList(u, ids) THEN ids ELSE Append(ids, u)

\* an Event row that is born with an external id
NewEventRowWithId(creator) ==
  [creatorId |-> creator, googleEventId |-> [g |-> 0], groupId |-> Null,
   status |-> "CONFIRMED"]

\* the CalendarEvent row prisma.calendarEvent.create inserts
NewEventRow(creator) ==
  [creatorId |-> creator, googleEventId |-> Null, groupId |-> Null,
   status |-> "CONFIRMED"]

\* @@unique([eventId, userId]): a nested create with a user twice fails
NoDuplicate(ids) ==
  \A j, k \in 1..Len(ids) : ids[j] = ids[k] => j = k

\* the route validates the body and calls createCalendarEvent, which
\* issues prisma.calendarEvent.create
StartCreate(r, u, valid, ids) ==
  /\ Free(r)
  /\ nEvents + Cardinality({q \in Reqs : req[q].pc = "c_create"}) + 1
        \in EventIds
  /\ req' = Set(r,
       IF ~valid
       THEN Finish([IdleReq EXCEPT !.kind = "create", !.user = u],
                   [status |-> 400, event |-> 0])
       ELSE [IdleReq EXCEPT !.kind = "create", !.user = u, !.pc = "c_create",
                            !.atts = ValidAttendeeIds(u, ids)])
  /\ UNCHANGED <<now, cred, rows, events, attendees, nEvents, oauth2Client,
                 listClient, issued, gcal, handed>>

\* the Event row and its Attendee rows are in the store; the creator's
\* credential is looked up
CreateLocalOk(r) ==
  LET rec == req[r]
      e == nEvents + 1
  IN /\ At(r, "c_create")
     /\ NoDuplicate(rec.atts)
     /\ nEvents' = e
     /\ events' = [events EXCEPT ![e] =
                     [NewEventRow(rec.user) EXCEPT !.groupId = rec.group]]
     /\ attendees' = [attendees EXCEPT ![e] =
           [u \in Users |-> IF InList(u, rec.atts) THEN "PENDING" ELSE "NONE"]]
     /\ req' = Set(r, [rec EXCEPT !.pc = "c_orgLookup", !.ev = e])
     /\ UNCHANGED <<now, cred, rows, oauth2Client, listClient, issued, gcal, handed>>

\* prisma.calendarEvent.create threw: the outer catch rethrows
CreateLocalFails(r) ==
  /\ At(r, "c_create")
  /\ req' = Set(r, CreateFailed(req[r]))
  /\ UNCHANGED <<now, cred, rows, events, attendees, nEvents, oauth2Client,
                 listClient, issued, gcal, handed>>

\* a lookup without the early return: getCalendarClient is called anyway
OrgLookupNoReturn(r) ==
  LET rec == req[r]
  IN /\ At(r, "c_orgLookup")
     /\ \/ req' = Set(r, ReturnNewEvent([rec EXCEPT !.orgRow = "throw"]))
        \/ req' = Set(r,
             StartRun([rec EXCEPT !.orgRow = IF cred[rec.user] = Null
                                            THEN "absent" ELSE "present"],
                      rec.user, "org"))
     /\ UNCHANGED <<now, cred, rows, events, attendees, nEvents, oauth2Client,
                    listClient, issued, gcal, handed>>

\* if (!creatorCredentials) return newEvent; else getCalendarClient(creatorId)
OrgLookupDone(r) ==
  LET rec == req[r]
  IN /\ At(r, "c_orgLookup")
     /\ \/ req' = Set(r, SyncCatch([rec EXCEPT !.orgRow = "throw"]))
        \/ req' = Set(r,
             IF cred[rec.user] = Null
             THEN ReturnNewEvent([rec EXCEPT !.orgRow = "absent"])
             ELSE StartRun([rec EXCEPT !.orgRow = "present"], rec.user, "org"))
     /\ UNCHANGED <<now, cred, rows, events, attendees, nEvents, oauth2Client,
                    listClient, issued, gcal, handed>>

\* events.insert succeeded in the calendar the client's credential opens;
\* the id is written back when the response carries one
InsertOk(r) ==
  LET rec == req[r]
  IN /\ At(r, "c_insert")
     /\ \E data \in InsertResponses(rec.ev) :
          /\ gcal' = [gcal EXCEPT ![rec.ev] = [cal |-> rec.with, id |-> data.id]]
          /\ UNCHANGED handed
          /\ req' = Set(r,
               IF data.id # Null
               THEN [rec EXCEPT !.pc = "c_writeback", !.ins = data]
               ELSE LoopNext([rec EXCEPT !.ins = data, !.i = 0]))
     /\ UNCHANGED <<now, cred, rows, events, attendees, nEvents, oauth2Client,
                    listClient, issued>>

InsertFails(r) ==
  /\ At(r, "c_insert")
  /\ req' = Set(r, SyncCatch(req[r]))
  /\ UNCHANGED <<now, cred, rows, events, attendees, nEvents, oauth2Client,
                 listClient, issued, gcal, handed>>

\* prisma.calendarEvent.update({googleEventId}) succeeded; the loop starts
WritebackOk(r) ==
  LET rec == req[r]
  IN /\ At(r, "c_writeback")
     /\ events' = [events EXCEPT ![rec.ev].googleEventId = rec.ins.id]
     /\ req' = Set(r, LoopNext([rec EXCEPT !.i = 0]))
     /\ UNCHANGED <<now, cred, rows, attendees, nEvents, oauth2Client, listClient,
                    issued, gcal, handed>>

\* the update threw: the inner catch ends the sync, the loop is not entered
WritebackFails(r) ==
  /\ At(r, "c_writeback")
  /\ req' = Set(r, SyncCatch(req[r]))
  /\ UNCHANGED <<now, cred, rows, events, attendees, nEvents, oauth2Client,
                 listClient, issued, gcal, handed>>

\* if (hasCalendarConnected && googleEvent.iCalUID) getCalendarClient(attendee)
AttLookupDone(r) ==
  LET rec == req[r]
      a == rec.atts[rec.i]
  IN /\ At(r, "c_attLookup")
     /\ \/ req' = Set(r, AttendeeCatch(rec))
        \/ req' = Set(r,
             IF cred[a] # Null /\ rec.ins.iCalUID # Null
             THEN StartRun([rec EXCEPT !.tried = @ \cup {a}], a, "att")
             ELSE LoopNext(rec))
     /\ UNCHANGED <<now, cred, rows, events, attendees, nEvents, oauth2Client,
                    listClient, issued, gcal, handed>>

\* events.import answered, with success or with an error the per-attendee
\* catch logs: either way the loop goes on
ImportDone(r) ==
  LET rec == req[r]
  IN /\ At(r, "c_import")
     /\ \E ok \in BOOLEAN :
          req' = Set(r, IF ok THEN LoopNext(rec) ELSE AttendeeCatch(rec))
     /\ UNCHANGED <<now, cred, rows, events, attendees, nEvents, oauth2Client,
                    listClient, issued, gcal, handed>>

\* ------------------------------------------------ GET /api/calendar/callback
\* the decoded state parameter; a state that does not decode is Null.  The
\* users who connect are u1 and u2 (u3 stays connected).
States ==
  {Null} \cup { [userId |-> u, timestamp |-> t] :
                  u \in {"u1", "u2", ""}, t \in {NoTime} \cup (0..now) }

\* a validation that also rejects a state exactly 15 minutes old
StateInvalidAtWindow(st, t) ==
  \/ st = Null
  \/ st.userId = ""
  \/ st.timestamp = NoTime
  \/ t - st.timestamp >= StateWindow

\* JSON.parse threw, no userId, no timestamp, or older than 15 minutes
StateInvalid(st, t) ==
  \/ st = Null
  \/ st.userId = ""
  \/ st.timestamp = NoTime
  \/ t - st.timestamp > StateWindow

Redirect(rec, what) == Finish(rec, [status |-> 302, to |-> what])

StartCallback(r, st) ==
  LET rec == [IdleReq EXCEPT !.kind = "callback", !.snap = st,
                             !.g.tRead = now]
  IN
  /\ Free(r)
  /\ req' = Set(r,
       IF StateInvalid(st, now)
       THEN Redirect(rec, "invalid_state")
       ELSE [rec EXCEPT !.user = st.userId, !.pc = "cb_token"])
  /\ UNCHANGED <<now, cred, rows, events, attendees, nEvents, oauth2Client,
                 listClient, issued, gcal, handed>>

\* a row that takes the token fields as they come
SavedRowRaw(tokens, t) ==
  [accessToken |-> tokens.access_token,
   refreshToken |-> tokens.refresh_token,
   expiryDate |-> tokens.expiry_date]

\* the row saveCredentials inserts
SavedRow(tokens, t) ==
  [accessToken |-> tokens.access_token,
   refreshToken |-> IF tokens.refresh_token # Null THEN tokens.refresh_token
                    ELSE [u |-> "", n |-> 0],
   expiryDate |-> IF tokens.expiry_date # NoTime THEN tokens.expiry_date
                  ELSE t + DefaultExpiry]

\* a callback that saves whatever the exchange returned
CbTokenDoneNoCheck(r) ==
  LET rec == req[r]
  IN /\ At(r, "cb_token")
     /\ \E tokens \in CodeResponses(rec.user) :
          /\ issued' = [issued EXCEPT ![rec.user] = @ + 1]
          /\ req' = Set(r, [rec EXCEPT !.pc = "cb_delete", !.snap = Unread,
                               !.g.tok = tokens, !.g.tRefresh = now,
                               !.g.upd = SavedRow(tokens, now)])
     /\ UNCHANGED <<now, cred, rows, events, attendees, nEvents, oauth2Client,
                    listClient, gcal, handed>>

\* oauth2Client.getToken(code) answered (the state is not used again, its
\* record is dropped).  With an access token in hand the
\* user is looked up (a read of a table no request writes, taken in the same
\* step), and saveCredentials computes the row and issues its DELETE.
CbTokenDone(r) ==
  LET rec == req[r]
  IN /\ At(r, "cb_token")
     /\ \/ /\ req' = Set(r, Redirect(rec, "token_exchange"))
           /\ UNCHANGED issued
        \/ \E tokens \in CodeResponses(rec.user), found \in BOOLEAN :
             LET rec2 == [rec EXCEPT !.g.tok = tokens, !.g.tRefresh = now]
             IN
             /\ issued' = [issued EXCEPT ![rec.user] = @ + 1]
             /\ req' = Set(r,
                  IF tokens.access_token = Null
                  THEN Redirect(rec2, "token_exchange")
                  ELSE IF ~found
                  THEN Redirect(rec2, "user_not_found")
                  ELSE [rec2 EXCEPT !.pc = "cb_delete", !.snap = Unread,
                                    !.g.upd = SavedRow(tokens, now)])
     /\ UNCHANGED <<now, cred, rows, events, attendees, nEvents, oauth2Client,
                    listClient, gcal, handed>>

\* DELETE FROM "GoogleCalendarCredential" WHERE "userId" = $1
CbDeleteDone(r) ==
  LET rec == req[r]
  IN /\ At(r, "cb_delete")
     /\ \/ /\ cred' = [cred EXCEPT ![rec.user] = Null]
           /\ rows' = [rows EXCEPT ![rec.user] = 0]
           /\ req' = Set(r, [rec EXCEPT !.pc = "cb_insert",
                                        !.g.read = cred[rec.user]])
        \/ /\ req' = Set(r, Redirect(rec, "database_error"))
           /\ UNCHANGED <<cred, rows>>
     /\ UNCHANGED <<now, events, attendees, nEvents, oauth2Client, listClient,
                    issued, gcal, handed>>

\* a table without the unique index
NoUniqueIndex(u) == TRUE

\* CREATE UNIQUE INDEX "GoogleCalendarCredential_userId_key": an INSERT for
\* user u is admitted only when the table holds no row of u
UniqueUserId(u) == rows[u] = 0

\* INSERT INTO "GoogleCalendarCredential": userId is unique
CbInsertDone(r) ==
  LET rec == req[r]
  IN /\ At(r, "cb_insert")
     /\ \/ /\ UniqueUserId(rec.user)
           /\ cred' = [cred EXCEPT ![rec.user] = rec.g.upd]
           /\ rows' = [rows EXCEPT ![rec.user] = @ + 1]
           /\ req' = Set(r, Redirect([rec EXCEPT !.g.wrote = rec.g.upd],
                                     "calendarConnected"))
        \/ /\ req' = Set(r, Redirect(rec, "database_error"))
           /\ UNCHANGED <<cred, rows>>
     /\ UNCHANGED <<now, events, attendees, nEvents, oauth2Client, listClient,
                    issued, gcal, handed>>

\* ---------------------------------------------- POST /api/calendar/disconnect
StartDisconnect(r, u) ==
  /\ Free(r)
  /\ req' = Set(r, [IdleReq EXCEPT !.kind = "disconnect", !.user = u,
                                   !.pc = "d_count"])
  /\ UNCHANGED <<now, cred, rows, events, attendees, nEvents, oauth2Client,
                 listClient, issued, gcal, handed>>

\* a disconnect that issues the DELETE without looking at the count
DiscCountSkipped(r) ==
  /\ At(r, "d_count")
  /\ req' = Set(r, [req[r] EXCEPT !.pc = "d_delete"])
  /\ UNCHANGED <<now, cred, rows, events, attendees, nEvents, oauth2Client,
                 listClient, issued, gcal, handed>>

\* SELECT COUNT(*): 404 when the user has no row, else the DELETE is issued
DiscCountDone(r) ==
  LET rec == req[r]
  IN /\ At(r, "d_count")
     /\ \/ req' = Set(r, Finish(rec, [status |-> 500]))
        \/ req' = Set(r, IF cred[rec.user] = Null
                         THEN Finish(rec, [status |-> 404])
                         ELSE [rec EXCEPT !.pc = "d_delete"])
     /\ UNCHANGED <<now, cred, rows, events, attendees, nEvents, oauth2Client,
                    listClient, issued, gcal, handed>>

DiscDeleteDone(r) ==
  LET rec == req[r]
  IN /\ At(r, "d_delete")
     /\ \/ /\ cred' = [cred EXCEPT ![rec.user] = Null]
           /\ rows' = [rows EXCEPT ![rec.user] = 0]
           /\ req' = Set(r, Finish(rec, [status |-> 200]))
        \/ /\ req' = Set(r, Finish(rec, [status |-> 500]))
           /\ UNCHANGED <<cred, rows>>
     /\ UNCHANGED <<now, events, attendees, nEvents, oauth2Client, listClient,
                    issued, gcal, handed>>

\* ------------------------------------------------ POST /api/calendar/respond
Responses == {"ACCEPTED", "DECLINED", "TENTATIVE"}

\* what the body may carry as response: a valid value, "" (missing) or junk
ResponseInputs == {"ACCEPTED", "", "MAYBE"}

\* a validation that only tests that both fields are present
RespondInvalidPresence(e, response) == e = 0 \/ response = ""

\* if (!eventId || !response) 400; if (!validResponses.includes(response)) 400
RespondInvalid(e, response) == e = 0 \/ response \notin Responses

\* googleUpdateResult ? 'success' : 'not_updated'
RespondDone(rec, synced) ==
  Finish(rec, [status |-> 200,
               sync |-> IF synced THEN "success" ELSE "not_updated"])

\* responseStatus -> the provider's vocabulary
GoogleResponseStatus(response) ==
  CASE response = "ACCEPTED" -> "accepted"
    [] response = "DECLINED" -> "declined"
    [] response = "TENTATIVE" -> "tentative"
    [] OTHER -> "needsAction"

\* the route validates the body and issues prisma.calendarEvent.findUnique
StartRespond(r, u, e, response) ==
  /\ Free(r)
  /\ req' = Set(r,
       IF RespondInvalid(e, response)
       THEN Finish([IdleReq EXCEPT !.kind = "respond", !.user = u],
                   [status |-> 400])
       ELSE [IdleReq EXCEPT !.kind = "respond", !.user = u, !.ev = e,
                            !.resp = response, !.pc = "r_find"])
  /\ UNCHANGED <<now, cred, rows, events, attendees, nEvents, oauth2Client,
                 listClient, issued, gcal, handed>>

\* the event with the caller's attendee row: 404 without the event, 403
\* without the row, else the row's update is issued
RespFindDone(r) ==
  LET rec == req[r]
      row == events[rec.ev]
  IN /\ At(r, "r_find")
     /\ \/ req' = Set(r, Finish(rec, [status |-> 500]))
        \/ req' = Set(r,
             IF row = Null THEN Finish(rec, [status |-> 404])
             ELSE IF attendees[rec.ev][rec.user] = "NONE"
             THEN Finish(rec, [status |-> 403])
             ELSE [rec EXCEPT !.pc = "r_update", !.snap = row])
     /\ UNCHANGED <<now, cred, rows, events, attendees, nEvents, oauth2Client,
                    listClient, issued, gcal, handed>>

\* an update that selects the rows by the event alone
RespUpdateAllRows(r) ==
  LET rec == req[r]
  IN /\ At(r, "r_update")
     /\ attendees' = [attendees EXCEPT ![rec.ev] =
           [u \in Users |-> IF @[u] = "NONE" THEN "NONE" ELSE rec.resp]]
     /\ req' = Set(r,
          IF rec.snap.googleEventId # Null /\ Email(rec.user) # Null
          THEN StartRun(rec, rec.snap.creatorId, "resp")
          ELSE RespondDone(rec, FALSE))
     /\ UNCHANGED <<now, cred, rows, events, nEvents, oauth2Client, listClient,
                    issued, gcal, handed>>

\* the attendee row is updated; with a googleEventId on the event read
\* before and an email on the user, updateGoogleCalendarAttendance starts
RespUpdateOk(r) ==
  LET rec == req[r]
  IN /\ At(r, "r_update")
     /\ attendees' = [attendees EXCEPT ![rec.ev][rec.user] = rec.resp]
     /\ req' = Set(r,
          IF rec.snap.googleEventId # Null /\ Email(rec.user) # Null
          THEN StartRun(rec, rec.snap.creatorId, "resp")
          ELSE RespondDone(rec, FALSE))
     /\ UNCHANGED <<now, cred, rows, events, nEvents, oauth2Client, listClient,
                    issued, gcal, handed>>

RespUpdateFails(r) ==
  /\ At(r, "r_update")
  /\ req' = Set(r, Finish(req[r], [status |-> 500]))
  /\ UNCHANGED <<now, cred, rows, events, attendees, nEvents, oauth2Client,
                 listClient, issued, gcal, handed>>

\* the attendee lists events.get may return for an external event
ExternalLists ==
  { << [email |-> Email("u1"), responseStatus |-> "needsAction"],
       [email |-> Email("u2"), responseStatus |-> "needsAction"] >>,
    << [email |-> Email("u1"), responseStatus |-> "accepted"] >> }

\* a map that adds the attendee when no entry carries their email
UpdatedAttendeesAppends(list, email, response) ==
  LET mapped == [ j \in 1..Len(list) |->
                    IF list[j].email = email
                    THEN [list[j] EXCEPT !.responseStatus = "accepted"]
                    ELSE list[j] ]
  IN IF \E j \in 1..Len(list) : list[j].email = email THEN mapped
     ELSE Append(mapped, [email |-> email, responseStatus |-> "accepted"])

\* attendees.map: the entries with the attendee's email get the new status
UpdatedAttendees(list, email, response) ==
  [ j \in 1..Len(list) |->
      IF list[j].email = email
      THEN [list[j] EXCEPT !.responseStatus = GoogleResponseStatus(response)]
      ELSE list[j] ]

\* events.get answered: without event data or attendees the function
\* returns null, else the patch with the mapped list is issued through the
\* shared client as it is now
GetOk(r) ==
  LET rec == req[r]
  IN /\ At(r, "r_get")
     /\ \E has \in BOOLEAN, list \in ExternalLists :
          req' = Set(r,
            IF ~has THEN RespondDone(rec, FALSE)
            ELSE [rec EXCEPT !.pc = "r_patch",
                    !.ins = [got |-> list,
                             sent |-> UpdatedAttendees(list, Email(rec.user),
                                                       rec.resp)],
                    !.with = Owner(oauth2Client),
                    !.calls = @ \cup {Call("patch", rec.g.user,
                                           Owner(oauth2Client))}])
     /\ UNCHANGED <<now, cred, rows, events, attendees, nEvents, oauth2Client,
                    listClient, issued, gcal, handed>>

\* events.get rejected: updateGoogleCalendarAttendance rethrows, the route
\* logs it
GetFails(r) ==
  /\ At(r, "r_get")
  /\ req' = Set(r, RespondDone(req[r], FALSE))
  /\ UNCHANGED <<now, cred, rows, events, attendees, nEvents, oauth2Client,
                 listClient, issued, gcal, handed>>

PatchDone(r) ==
  /\ At(r, "r_patch")
  /\ \E ok \in BOOLEAN : req' = Set(r, RespondDone(req[r], ok))
  /\ UNCHANGED <<now, cred, rows, events, attendees, nEvents, oauth2Client,
                 listClient, issued, gcal, handed>>

\* ------------------------------------------------ GET /api/calendar/auth-url
\* the users whose sessions ask for an authorization URL
Connectors == {"u1", "u2"}

\* { userId: session.user.id, timestamp: Date.now(), nonce }: the callback
\* reads userId and timestamp only
NewState(u, t) == [userId |-> u, timestamp |-> t]

\* the route reads the session
StartAuthUrl(r, u) ==
  /\ Free(r)
  /\ req' = Set(r, [IdleReq EXCEPT !.kind = "authurl", !.user = u,
                                   !.pc = "a_session"])
  /\ UNCHANGED <<now, cred, rows, events, attendees, nEvents, oauth2Client,
                 listClient, issued, gcal, handed>>

\* the session was found: the URL with the state parameter is returned;
\* a failed lookup is a 500
AuthUrlDone(r) ==
  LET rec == req[r]
      st == NewState(rec.user, now)
  IN /\ At(r, "a_session")
     /\ \/ /\ handed' = handed \cup {st}
           /\ req' = Set(r, Finish([rec EXCEPT !.snap = st], [status |-> 200]))
        \/ /\ req' = Set(r, Finish(rec, [status |-> 500]))
           /\ UNCHANGED handed
     /\ UNCHANGED <<now, cred, rows, events, attendees, nEvents, oauth2Client,
                    listClient, issued, gcal>>

\* --------------------------------------------------------- group events
\* The Group and GroupMember tables, which no handler modelled here writes:
\* one group with u2 as its administrator
Groups == {[grp |-> 1]}

GroupRole(g, u) ==
  IF g \notin Groups THEN "NONE"
  ELSE IF u = "u2" THEN "ADMIN" ELSE "MEMBER"

GroupMemberIds(g) == { u \in Users : GroupRole(g, u) # "NONE" }

\* attendeeIds of a group event's request body
GroupAttendeeLists == { <<>>, <<"u1", "u2">>, <<"u2", "u3">>, <<"u2", "u2">> }

\* POST /api/groups/[id]/events: the body is validated, the caller's
\* membership and the attendees' membership are read, and
\* createCalendarEvent issues prisma.calendarEvent.create with the
\* attendeeIds of the body
StartGroupCreate(r, u, g, valid, ids) ==
  LET rec == [IdleReq EXCEPT !.kind = "gcreate", !.user = u]
  IN /\ Free(r)
     /\ nEvents + Cardinality({q \in Reqs : req[q].pc = "c_create"}) + 1
           \in EventIds
     /\ req' = Set(r,
          IF ~valid THEN Finish(rec, [status |-> 400, event |-> 0])
          ELSE IF GroupRole(g, u) = "NONE"
          THEN Finish(rec, [status |-> 403, event |-> 0])
          ELSE IF \E j \in 1..Len(ids) : ids[j] \notin GroupMemberIds(g)
          THEN Finish(rec, [status |-> 400, event |-> 0])
          ELSE [rec EXCEPT !.pc = "c_create", !.atts = ids, !.group = g])
     /\ UNCHANGED <<now, cred, rows, events, attendees, nEvents, oauth2Client,
                    listClient, issued, gcal, handed>>

\* ---------------------------- POST /api/groups/[id]/events/[eventId]/cancel
\* a check that lets every member of the group cancel
MayCancelAsMember(row, u) ==
  GroupRole(row.groupId, u) # "NONE" \/ row.creatorId = u

\* isAdmin || isCreator
MayCancel(row, u) ==
  GroupRole(row.groupId, u) = "ADMIN" \/ row.creatorId = u

\* the session is read and prisma.calendarEvent.findFirst is issued
StartCancel(r, u, g, e) ==
  /\ Free(r)
  /\ req' = Set(r, [IdleReq EXCEPT !.kind = "cancel", !.user = u, !.ev = e,
                                   !.group = g, !.pc = "x_find"])
  /\ UNCHANGED <<now, cred, rows, events, attendees, nEvents, oauth2Client,
                 listClient, issued, gcal, handed>>

\* findFirst answered: 404 without an event of that group, 403 for a caller
\* who is neither administrator nor creator, else the update is issued
CancelFindDone(r) ==
  LET rec == req[r]
      row == events[rec.ev]
  IN /\ At(r, "x_find")
     /\ \/ req' = Set(r, Finish(rec, [status |-> 500]))
        \/ req' = Set(r,
             IF row = Null \/ row.groupId # rec.group
             THEN Finish(rec, [status |-> 404])
             ELSE IF ~MayCancel(row, rec.user)
             THEN Finish([rec EXCEPT !.snap = row], [status |-> 403])
             ELSE [rec EXCEPT !.snap = row, !.pc = "x_update"])
     /\ UNCHANGED <<now, cred, rows, events, attendees, nEvents, oauth2Client,
                    listClient, issued, gcal, handed>>

\* prisma.calendarEvent.update stored status CANCELLED: the event is returned
CancelUpdateOk(r) ==
  LET rec == req[r]
  IN /\ At(r, "x_update")
     /\ events[rec.ev] # Null
     /\ events' = [events EXCEPT ![rec.ev].status = "CANCELLED"]
     /\ req' = Set(r, Finish(rec, [status |-> 200]))
     /\ UNCHANGED <<now, cred, rows, attendees, nEvents, oauth2Client,
                    listClient, issued, gcal, handed>>

\* the update threw: the catch answers 500
CancelUpdateFails(r) ==
  /\ At(r, "x_update")
  /\ req' = Set(r, Finish(req[r], [status |-> 500]))
  /\ UNCHANGED <<now, cred, rows, events, attendees, nEvents, oauth2Client,
                 listClient, issued, gcal, handed>>

\* ------------------------------------------------------ updateEventResponse
\* responseStatus is typed 'ACCEPTED' | 'DECLINED' | 'TENTATIVE'
UerResponses == {"DECLINED"}

\* { ACCEPTED: 'accepted', DECLINED: 'declined', TENTATIVE: 'tentative' }
UerResponseStatus(response) ==
  CASE response = "ACCEPTED" -> "accepted"
    [] response = "DECLINED" -> "declined"
    [] response = "TENTATIVE" -> "tentative"

\* attendees.map of updateEventResponse
UerUpdatedAttendees(list, email, response) ==
  [ j \in 1..Len(list) |->
      IF list[j].email = email
      THEN [list[j] EXCEPT !.responseStatus = UerResponseStatus(response)]
      ELSE list[j] ]

\* the function issues prisma.eventAttendee.update (include: event)
StartUer(r, u, e, response) ==
  /\ Free(r)
  /\ req' = Set(r, [IdleReq EXCEPT !.kind = "uer", !.user = u, !.ev = e,
                                   !.resp = response, !.pc = "u_update"])
  /\ UNCHANGED <<now, cred, rows, events, attendees, nEvents, oauth2Client,
                 listClient, issued, gcal, handed>>

\* the attendee row is updated; with a googleEventId on its event,
\* getCalendarClient(creatorId) is called
UerUpdateOk(r) ==
  LET rec == req[r]
      row == events[rec.ev]
  IN /\ At(r, "u_update")
     /\ row # Null /\ attendees[rec.ev][rec.user] # "NONE"
     /\ attendees' = [attendees EXCEPT ![rec.ev][rec.user] = rec.resp]
     /\ req' = Set(r,
          IF row.googleEventId # Null
          THEN StartRun([rec EXCEPT !.snap = row], row.creatorId, "uer")
          ELSE ReturnUpdatedAttendee([rec EXCEPT !.snap = row]))
     /\ UNCHANGED <<now, cred, rows, events, nEvents, oauth2Client,
                    listClient, issued, gcal, handed>>

\* the update threw (no such attendee row, or the store failed): the outer
\* catch rethrows
UerUpdateFails(r) ==
  /\ At(r, "u_update")
  /\ req' = Set(r, Finish(req[r], [status |-> 500]))
  /\ UNCHANGED <<now, cred, rows, events, attendees, nEvents, oauth2Client,
                 listClient, issued, gcal, handed>>

\* events.get answered: on success the user's email is looked up, a
\* rejection is logged by the inner catch
UerGetDone(r) ==
  LET rec == req[r]
  IN /\ At(r, "u_get")
     /\ \/ \E has \in BOOLEAN, list \in ExternalLists :
             req' = Set(r, [rec EXCEPT !.pc = "u_email",
                              !.ins = [got |-> IF has THEN list ELSE <<>>,
                                       sent |-> <<>>]])
        \/ req' = Set(r, ReturnUpdatedAttendee(rec))
     /\ UNCHANGED <<now, cred, rows, events, attendees, nEvents, oauth2Client,
                    listClient, issued, gcal, handed>>

\* prisma.user.findUnique answered: without an email the function throws
\* into its inner catch, else the patch with the mapped list is issued
UerEmailDone(r) ==
  LET rec == req[r]
      sent == UerUpdatedAttendees(rec.ins.got, Email(rec.user), rec.resp)
  IN /\ At(r, "u_email")
     /\ \/ req' = Set(r, ReturnUpdatedAttendee(rec))
        \/ req' = Set(r,
             IF Email(rec.user) = Null THEN ReturnUpdatedAttendee(rec)
             ELSE [rec EXCEPT !.pc = "u_patch", !.ins.sent = sent,
                     !.with = Owner(oauth2Client),
                     !.calls = @ \cup {Call("patch", rec.g.user,
                                            Owner(oauth2Client))}])
     /\ UNCHANGED <<now, cred, rows, events, attendees, nEvents, oauth2Client,
                    listClient, issued, gcal, handed>>

\* events.patch answered, with success or with an error the catch logs
UerPatchDone(r) ==
  /\ At(r, "u_patch")
  /\ req' = Set(r, ReturnUpdatedAttendee(req[r]))
  /\ UNCHANGED <<now, cred, rows, events, attendees, nEvents, oauth2Client,
                 listClient, issued, gcal, handed>>

\* ------------------------------------------------- GET /api/calendar/events
\* updateCredentials arguments after a refresh in the route
ListUpdateData(tok, row, t) ==
  [accessToken |-> IF tok.access_token # Null THEN tok.access_token
                   ELSE row.accessToken,
   refreshToken |-> IF tok.refresh_token # Null THEN tok.refresh_token
                    ELSE row.refreshToken,
   expiryDate |-> IF tok.expiry_date # NoTime THEN tok.expiry_date
                  ELSE t + DefaultExpiry]

\* the route issues getCalendarCredentials (a raw SELECT)
StartList(r, u) ==
  /\ Free(r)
  /\ req' = Set(r, [IdleReq EXCEPT !.kind = "list", !.user = u,
                      !.pc = "l_lookup",
                      !.g = [NoRun EXCEPT !.user = u, !.for = "list",
                                          !.ret = "running"]])
  /\ UNCHANGED <<now, cred, rows, events, attendees, nEvents, oauth2Client,
                 listClient, issued, gcal, handed>>

\* no row (or a failed SELECT, which the helper turns into null) is a 404;
\* else the row is installed in the route's client and, when it is expired,
\* refreshed, and otherwise events.list is issued
ListLookupDone(r) ==
  LET rec == req[r]
      u == rec.user
      row == cred[u]
      rec2 == [rec EXCEPT !.g.read = row, !.g.tRead = now]
  IN /\ At(r, "l_lookup")
     /\ \/ /\ req' = Set(r, Finish([rec EXCEPT !.g.ret = "absent"],
                                   [status |-> 404]))
           /\ UNCHANGED listClient
        \/ /\ row = Null
           /\ req' = Set(r, Finish([rec2 EXCEPT !.g.ret = "absent"],
                                   [status |-> 404]))
           /\ UNCHANGED listClient
        \/ /\ row # Null
           /\ listClient' = ClientCreds(row)
           /\ req' = Set(r,
                IF IsExpired(row, now)
                THEN [rec2 EXCEPT !.pc = "l_refresh", !.g.nRefresh = @ + 1,
                        !.calls = @ \cup
                          {Call("refresh", u, listClient'.refresh_token.u)}]
                ELSE [rec2 EXCEPT !.pc = "l_list", !.g.ret = "client",
                        !.with = Owner(listClient'),
                        !.calls = @ \cup
                          {Call("list", u, Owner(listClient'))}])
     /\ UNCHANGED <<now, cred, rows, events, attendees, nEvents, oauth2Client,
                    issued, gcal, handed>>

\* refreshAccessToken resolved: updateCredentials (a raw UPDATE) is issued
ListRefreshOk(r) ==
  LET rec == req[r]
      u == rec.user
  IN /\ At(r, "l_refresh")
     /\ \E tok \in RefreshResponses(u) :
          /\ issued' = [issued EXCEPT ![u] = @ + 1]
          /\ listClient' =
               [access_token |-> tok.access_token,
                refresh_token |-> IF tok.refresh_token # Null
                                  THEN tok.refresh_token
                                  ELSE rec.g.read.refreshToken,
                expiry_date |-> tok.expiry_date]
          /\ req' = Set(r, [rec EXCEPT !.pc = "l_update", !.g.tok = tok,
                               !.g.tRefresh = now,
                               !.g.upd = ListUpdateData(tok, rec.g.read, now)])
     /\ UNCHANGED <<now, cred, rows, events, attendees, nEvents, oauth2Client,
                    gcal, handed>>

\* the catch around the refresh answers 401
ListRefreshFails(r) ==
  LET rec == req[r]
  IN /\ At(r, "l_refresh")
     /\ \E why \in RefreshFailures :
          req' = Set(r, Finish([rec EXCEPT !.g.tok = [failed |-> why],
                                           !.g.ret = "throw"],
                               [status |-> 401]))
     /\ UNCHANGED <<now, cred, rows, events, attendees, nEvents, oauth2Client,
                    listClient, issued, gcal, handed>>

\* a persist step that inserts the row when the UPDATE finds none
ListUpdateUpserts(r) ==
  LET rec == req[r]
      u == rec.user
      tok == rec.g.tok
  IN /\ At(r, "l_update")
     /\ \/ /\ cred' = [cred EXCEPT ![u] = rec.g.upd]
           /\ rows' = [rows EXCEPT ![u] = 1]
           /\ listClient' =
                [access_token |-> tok.access_token,
                 refresh_token |-> IF tok.refresh_token # Null
                                   THEN tok.refresh_token
                                   ELSE rec.g.read.refreshToken,
                 expiry_date |-> tok.expiry_date]
           /\ req' = Set(r, [rec EXCEPT !.pc = "l_list", !.g.ret = "client",
                   !.g.wrote = cred'[u],
                   !.with = Owner(listClient'),
                   !.calls = @ \cup {Call("list", u, Owner(listClient'))}])
        \/ /\ req' = Set(r, Finish([rec EXCEPT !.g.ret = "throw"],
                                   [status |-> 401]))
           /\ UNCHANGED <<cred, rows, listClient>>
     /\ UNCHANGED <<now, events, attendees, nEvents, oauth2Client, issued,
                    gcal, handed>>

\* the UPDATE ran (on no row when the user's row is gone): the new tokens are
\* set on the client and events.list is issued; a failed UPDATE is a 401
ListUpdateDone(r) ==
  LET rec == req[r]
      u == rec.user
      tok == rec.g.tok
  IN /\ At(r, "l_update")
     /\ \/ /\ cred' = [cred EXCEPT ![u] = IF @ = Null THEN Null ELSE rec.g.upd]
           /\ UNCHANGED rows
           /\ listClient' =
                [access_token |-> tok.access_token,
                 refresh_token |-> IF tok.refresh_token # Null
                                   THEN tok.refresh_token
                                   ELSE rec.g.read.refreshToken,
                 expiry_date |-> tok.expiry_date]
           /\ req' = Set(r, [rec EXCEPT !.pc = "l_list", !.g.ret = "client",
                   !.g.wrote = cred'[u],
                   !.with = Owner(listClient'),
                   !.calls = @ \cup {Call("list", u, Owner(listClient'))}])
        \/ /\ req' = Set(r, Finish([rec EXCEPT !.g.ret = "throw"],
                                   [status |-> 401]))
           /\ UNCHANGED <<cred, rows, listClient>>
     /\ UNCHANGED <<now, events, attendees, nEvents, oauth2Client, issued,
                    gcal, handed>>

\* events.list answered: 200 with the items, or 500
ListDone(r) ==
  /\ At(r, "l_list")
  /\ \E ok \in BOOLEAN :
       req' = Set(r, Finish(req[r], [status |-> IF ok THEN 200 ELSE 500]))
  /\ UNCHANGED <<now, cred, rows, events, attendees, nEvents, oauth2Client,
                 listClient, issued, gcal, handed>>

\* the response has left the server: the request's context is dropped
Retire(r) ==
  /\ req[r].pc = "done"
  /\ req' = Set(r, [IdleReq EXCEPT !.pc = "gone"])
  /\ UNCHANGED <<now, cred, rows, events, attendees, nEvents, oauth2Client,
                 listClient, issued, gcal, handed>>

\* ------------------------------------------------------------ specification
ClientSteps(r) ==
  \/ GccLookupDone(r)
  \/ GccLookupThrows(r)
  \/ GccRefreshOk(r)
  \/ GccRefreshFails(r)
  \/ GccUpdateDone(r)

CreateSteps(r) ==
  \/ \E u \in Creators, valid \in BOOLEAN, ids \in AttendeeLists :
       StartCreate(r, u, valid, ids)
  \/ CreateLocalOk(r)
  \/ CreateLocalFails(r)
  \/ OrgLookupDone(r)
  \/ InsertOk(r)
  \/ InsertFails(r)
  \/ WritebackOk(r)
  \/ WritebackFails(r)
  \/ AttLookupDone(r)
  \/ ImportDone(r)

CallbackSteps(r) ==
  \/ \E st \in States : StartCallback(r, st)
  \/ CbTokenDone(r)
  \/ CbDeleteDone(r)
  \/ CbInsertDone(r)

DisconnectSteps(r) ==
  \/ \E u \in Users : StartDisconnect(r, u)
  \/ DiscCountDone(r)
  \/ DiscDeleteDone(r)

RespondSteps(r) ==
  \/ \E u \in Users, e \in {0, 1}, response \in ResponseInputs :
       StartRespond(r, u, e, response)
  \/ RespFindDone(r)
  \/ RespUpdateOk(r)
  \/ RespUpdateFails(r)
  \/ GetOk(r)
  \/ GetFails(r)
  \/ PatchDone(r)

AuthUrlSteps(r) ==
  \/ \E u \in Connectors : StartAuthUrl(r, u)
  \/ AuthUrlDone(r)

GroupSteps(r) ==
  \/ \E u \in Creators, g \in Groups, valid \in BOOLEAN,
        ids \in GroupAttendeeLists : StartGroupCreate(r, u, g, valid, ids)
  \/ \E u \in Users, g \in Groups, e \in EventIds : StartCancel(r, u, g, e)
  \/ CancelFindDone(r)
  \/ CancelUpdateOk(r)
  \/ CancelUpdateFails(r)

UerSteps(r) ==
  \/ \E u \in Users, response \in UerResponses : StartUer(r, u, 1, response)
  \/ UerUpdateOk(r)
  \/ UerUpdateFails(r)
  \/ UerGetDone(r)
  \/ UerEmailDone(r)
  \/ UerPatchDone(r)

ListSteps(r) ==
  \/ \E u \in Users : StartList(r, u)
  \/ ListLookupDone(r)
  \/ ListRefreshOk(r)
  \/ ListRefreshFails(r)
  \/ ListUpdateDone(r)
  \/ ListDone(r)

\* every handler, any two requests
Next ==
  \/ Tick
  \/ \E r \in Reqs :
       \/ CreateSteps(r) \/ ClientSteps(r) \/ RespondSteps(r) \/ ListSteps(r)
       \/ UerSteps(r) \/ GroupSteps(r) \/ AuthUrlSteps(r)
       \/ CallbackSteps(r) \/ DisconnectSteps(r) \/ Retire(r)

Spec == Init /\ [][Next]_vars

\* event creation, with connects and disconnects going on beside it
NextCreate ==
  \/ Tick
  \/ \E r \in Reqs :
       \/ CreateSteps(r) \/ ClientSteps(r)
       \/ CallbackSteps(r) \/ DisconnectSteps(r) \/ Retire(r)

SpecCreate == InitStore(InitCreds, {Unsynced}) /\ [][NextCreate]_vars

\* the requests that share the client of google-calendar.ts
NextSync ==
  \/ Tick
  \/ \E r \in Reqs :
       \/ CreateSteps(r) \/ ClientSteps(r) \/ RespondSteps(r) \/ Retire(r)

SpecSync ==
  InitStore({f \in InitCreds : \A u \in Users : f[u] # Null}, {Synced})
    /\ [][NextSync]_vars

\* the requests that obtain a usable credential, with disconnects beside them
NextRefresh ==
  \/ Tick
  \/ \E r \in Reqs :
       \/ RespondSteps(r) \/ ClientSteps(r) \/ ListSteps(r)
       \/ DisconnectSteps(r) \/ Retire(r)

SpecRefresh == Init /\ [][NextRefresh]_vars

\* both creation entry points and the cancellation of group events
NextGroup ==
  \/ Tick
  \/ \E r \in Reqs :
       \/ CreateSteps(r) \/ GroupSteps(r) \/ ClientSteps(r) \/ Retire(r)

SpecGroup ==
  InitStore({f \in InitCreds : f["u2"] = Null}, InitEvents)
    /\ [][NextGroup]_vars

\* the requests that validate a body: both creations and the response,
\* at one instant
NextIntake ==
  \E r \in Reqs :
    \/ CreateSteps(r)
    \/ \E u \in Creators, g \in Groups, valid \in BOOLEAN,
          ids \in GroupAttendeeLists : StartGroupCreate(r, u, g, valid, ids)
    \/ RespondSteps(r) \/ ClientSteps(r) \/ Retire(r)

SpecIntake ==
  InitStore({f \in InitCreds : f["u2"] = Null}, {Synced})
    /\ [][NextIntake]_vars

\* the steps that end an await on the server's own database
StoreAnswers(r) ==
  \/ CreateLocalOk(r) \/ CreateLocalFails(r) \/ OrgLookupDone(r)
  \/ WritebackOk(r) \/ WritebackFails(r) \/ AttLookupDone(r)
  \/ RespFindDone(r) \/ RespUpdateOk(r) \/ RespUpdateFails(r)
  \/ GccLookupDone(r) \/ GccLookupThrows(r) \/ GccUpdateDone(r)

\* the steps that end an await on the provider
ProviderAnswers(r) ==
  \/ GccRefreshOk(r) \/ GccRefreshFails(r)
  \/ InsertOk(r) \/ InsertFails(r) \/ ImportDone(r)
  \/ GetOk(r) \/ GetFails(r) \/ PatchDone(r)

\* creation and response at one instant
NextAwait ==
  \E r \in Reqs :
    \/ \E u \in Creators, valid \in BOOLEAN, ids \in AttendeeLists :
          StartCreate(r, u, valid, ids)
    \/ \E u \in Users, e \in {0, 1}, response \in ResponseInputs :
          StartRespond(r, u, e, response)
    \/ StoreAnswers(r) \/ ProviderAnswers(r) \/ Retire(r)

\* The database answers every query and the runtime resumes a handler whose
\* await has settled; nothing in the source bounds the wait for the
\* provider, whose answer may never come.
SpecAwait ==
  /\ InitStore({f \in InitCreds : f["u2"] = Null}, {Synced})
  /\ [][NextAwait]_vars
  /\ \A r \in Reqs : WF_vars(StoreAnswers(r)) /\ WF_vars(Retire(r))

\* the same with a provider that always answers
SpecAnswered ==
  SpecAwait /\ \A r \in Reqs : WF_vars(ProviderAnswers(r))

\* the authorization round trip: the state handed out and the callback
NextConnect ==
  \/ Tick
  \/ \E r \in Reqs :
       \/ AuthUrlSteps(r) \/ CallbackSteps(r) \/ Retire(r)

SpecConnect == InitStore(InitCreds, {Unsynced}) /\ [][NextConnect]_vars

\* the two response handlers and the client they share
NextRespond ==
  \/ Tick
  \/ \E r \in Reqs :
       \/ RespondSteps(r) \/ UerSteps(r) \/ ClientSteps(r) \/ Retire(r)

\* only the organizer's credential is used by the response handlers
SpecRespond ==
  InitStore({f \in InitCreds : f["u2"] = Null}, InitEvents)
    /\ [][NextRespond]_vars

\* connecting and disconnecting, with the events route refreshing beside
NextAuth ==
  \/ Tick
  \/ \E r \in Reqs :
       \/ CallbackSteps(r) \/ DisconnectSteps(r) \/ ListSteps(r) \/ Retire(r)

SpecAuth == InitStore(InitCreds, {Unsynced}) /\ [][NextAuth]_vars

\* ------------------------------------------------------------------- claims
\* the create requests that have their local event
Created(r) == req[r].kind = "create" /\ req[r].ev # 0

\* C1: createCalendarEvent returns the locally created event, and the Event
\* row with all its Attendee rows stays in the store, whatever the outcomes
\* of the credential lookups, the refresh, the insert, the write-back and the
\* imports are.
C1_LocalEventKept ==
  /\ \A e \in 1..nEvents : events[e] # Null
  /\ \A r \in Reqs :
       Created(r) =>
         /\ events[req[r].ev] # Null
         /\ \A u \in Users :
              InList(u, req[r].atts) => attendees[req[r].ev][u] = "PENDING"
         /\ req[r].pc = "done" =>
              req[r].result = [status |-> 200, event |-> req[r].ev]

\* a create request has returned after its events.insert was rejected
C1_Witness ==
  \E r \in Reqs :
    /\ Created(r) /\ req[r].pc = "done"
    /\ req[r].with # "" /\ gcal[req[r].ev] = Null

\* C2: a create request issues no provider call before its Event row
\* exists, and an Event's googleEventId is non-null only when an
\* events.insert for that event has succeeded and returned that id.
C2_LocalBeforeExternal ==
  /\ \A r \in Reqs :
       (req[r].kind = "create" /\ (req[r].calls # {} \/ req[r].g # NoRun)) =>
          Created(r) /\ events[req[r].ev] # Null
  /\ \A e \in EventIds :
       (events[e] # Null /\ events[e].googleEventId # Null) =>
          gcal[e] # Null /\ gcal[e].id = events[e].googleEventId

\* a create request has written the id of its external event back
C2_Witness ==
  \E r \in Reqs :
    /\ Created(r) /\ req[r].ins # Null
    /\ events[req[r].ev].googleEventId = req[r].ins.id

\* C3: once a create request has completed, the Event's googleEventId is
\* non-null if and only if the organizer's events.insert succeeded.
C3_IdIffInserted ==
  \A r \in Reqs :
    (Created(r) /\ req[r].pc = "done") =>
       (events[req[r].ev].googleEventId # Null <=> gcal[req[r].ev] # Null)

\* C9: when the organizer has no credential row, the create request calls
\* neither getCalendarClient nor the provider, for the organizer or for any
\* attendee, and returns the local event, whose googleEventId is null.
C9_NoRowNoCalls ==
  \A r \in Reqs :
    (req[r].kind = "create" /\ req[r].orgRow = "absent") =>
       /\ req[r].calls = {} /\ req[r].g = NoRun
       /\ req[r].pc = "done"
       /\ req[r].result = [status |-> 200, event |-> req[r].ev]
       /\ events[req[r].ev].googleEventId = Null
       /\ gcal[req[r].ev] = Null

\* an unconnected organizer has created an event with a connected attendee
C9_Witness ==
  \E r \in Reqs :
    /\ req[r].kind = "create" /\ req[r].orgRow = "absent"
    /\ InList("u2", req[r].atts) /\ cred["u2"] # Null

\* the runs of getCalendarClient and of the credential section of the
\* events route
Runs == { r \in Reqs : req[r].g.ret # "" }

\* the refresh call of the run resolved with tokens
Refreshed(g) == "access_token" \in DOMAIN g.tok

\* the refresh call of the run was rejected
RefreshFailed(g) == "failed" \in DOMAIN g.tok

\* C4: every provider call a request issues for user U carries U's own
\* credential, whatever other requests do in between.
C4_OwnCredential ==
  \A r \in Reqs : \A c \in req[r].calls : c.with = c.for

\* C5: a run that reads a credential whose expiry is in the past makes
\* exactly one refresh call and, when the call succeeds, writes the new
\* access token with an expiry later than the time of the refresh; a run
\* that reads a credential whose expiry is in the future makes no refresh
\* call and writes nothing.
C5_RefreshOnceWhenExpired ==
  \A r \in Runs :
    LET g == req[r].g
    IN g.read \notin {Unread, Null} =>
         /\ g.read.expiryDate < g.tRead =>
              /\ g.nRefresh = 1
              /\ Refreshed(g) =>
                   /\ g.upd # Null
                   /\ g.upd.accessToken = g.tok.access_token
                   /\ g.upd.expiryDate > g.tRefresh
              /\ g.wrote # Null =>
                   /\ g.wrote.accessToken = g.tok.access_token
                   /\ g.wrote.expiryDate = g.upd.expiryDate
                   /\ g.wrote.expiryDate > g.tRefresh
         /\ g.read.expiryDate > g.tRead =>
              /\ g.nRefresh = 0
              /\ g.tok = Null /\ g.upd = Null /\ g.wrote = Null

\* getCalendarClient has refreshed an expired credential and stored the
\* new access token and expiry
C5_Witness ==
  \E r \in Runs :
    /\ req[r].g.for # "list"
    /\ req[r].g.wrote # Null
    /\ req[r].g.read.expiryDate < req[r].g.tRead
    /\ cred[req[r].g.user] = req[r].g.wrote

\* C6: after a successful refresh the stored refresh token is the one the
\* refresh returned when it returned one, and the one stored before
\* otherwise.
C6_RefreshTokenFollowsResponse ==
  \A r \in Runs :
    LET g == req[r].g
    IN (Refreshed(g) /\ g.wrote # Null) =>
         g.wrote.refreshToken =
           IF g.tok.refresh_token # Null THEN g.tok.refresh_token
           ELSE g.read.refreshToken

\* C7: the step in which a refresh call is rejected changes no credential
\* row, issues no provider call, and ends the run with an error: thrown to
\* the caller of getCalendarClient, a 401 from the events route.
C7_FailedRefreshStep ==
  \A r \in Reqs :
    (req[r].pc \in {"g_refresh", "l_refresh"} /\ RefreshFailed(req'[r].g)) =>
       /\ cred' = cred
       /\ req'[r].g.ret = "throw"
       /\ req'[r].g.upd = Null /\ req'[r].g.wrote = Null
       /\ req'[r].calls = req[r].calls
       /\ req[r].pc = "l_refresh" =>
            req'[r].pc = "done" /\ req'[r].result = [status |-> 401]

C7_FailedRefreshKeepsRow == [][C7_FailedRefreshStep]_vars

\* a refresh was rejected and the row is the one the run had read
C7_Witness ==
  \E r \in Runs :
    /\ RefreshFailed(req[r].g)
    /\ req[r].g.ret = "throw"
    /\ cred[req[r].g.user] = req[r].g.read

\* C8: a run whose refresh failed for good (consent revoked) leaves the
\* user without a credential row.
C8_RevokedEndsUnconnected ==
  \A r \in Runs :
    (req[r].g.for # "list" /\ req[r].g.tok = [failed |-> "revoked"]) =>
       cred[req[r].g.user] = Null

\* C10: getCalendarClient for a user without a credential row ends with
\* the outcome 'absent', not with an error.
C10_NoRowIsAbsent ==
  \A r \in Runs :
    (req[r].g.read = Null /\ req[r].g.ret # "running") =>
       req[r].g.ret = "absent"

\* the attendees of a create request other than its organizer
Invited(r) ==
  { req[r].atts[j] : j \in 1..Len(req[r].atts) } \ {req[r].user}

\* C11: when the organizer's events.insert succeeded, the attendees for
\* whom the request attempted the propagation (getCalendarClient and
\* events.import) are exactly the attendees other than the organizer that
\* have a credential row.
C11_AttemptPerConnected ==
  \A r \in Reqs :
    (Created(r) /\ req[r].pc = "done" /\ gcal[req[r].ev] # Null) =>
       req[r].tried = { u \in Invited(r) : cred[u] # Null }

\* C12: once the attendee loop has been entered, the request returns only
\* after the loop has visited every attendee other than the organizer,
\* whatever failed for the attendees before.
C12_LoopVisitsAll ==
  \A r \in Reqs :
    (Created(r) /\ req[r].pc = "done"
       /\ events[req[r].ev].googleEventId # Null) =>
       \A j \in 1..Len(req[r].atts) :
          req[r].atts[j] # req[r].user => j <= req[r].i

\* the refresh for the first attendee failed and the second attendee was
\* visited after it
C12_Witness ==
  \E r \in Reqs :
    /\ Created(r) /\ req[r].atts = <<"u2", "u3", "u1">>
    /\ req[r].i = 2
    /\ "u2" \in req[r].tried
    /\ \A c \in req[r].calls : ~(c.op = "import" /\ c.for = "u2")

\* the authorization callbacks
Callbacks == { r \in Reqs : req[r].kind = "callback" }

\* the redirect a finished callback answered with ("" while it runs)
RedirectOf(r) == IF req[r].pc = "done" THEN req[r].result.to ELSE ""

\* the state does not decode, has no userId, has no issue time, or was
\* issued more than 15 minutes before time t
Rejectable(st, t) ==
  IF st = Null THEN TRUE
  ELSE \/ st.userId = ""
       \/ st.timestamp = NoTime
       \/ t - st.timestamp > StateWindow

\* C13: a callback whose state does not decode, lacks the userId or the
\* issue time, or is older than 15 minutes ends at once with invalid_state,
\* without a token exchange and without a write; a well-formed state of
\* 15 minutes or less is not answered with invalid_state.
C13_StateValidation ==
  \A r \in Callbacks :
    req[r].snap # Unread =>
      IF Rejectable(req[r].snap, req[r].g.tRead)
      THEN /\ RedirectOf(r) = "invalid_state"
           /\ req[r].g.tok = Null /\ req[r].g.upd = Null
           /\ req[r].g.wrote = Null
      ELSE RedirectOf(r) # "invalid_state"

\* a well-formed state was rejected because it was 30 minutes old
C13_Witness ==
  \E r \in Callbacks :
    /\ RedirectOf(r) = "invalid_state"
    /\ req[r].snap # Null
    /\ req[r].snap.userId # "" /\ req[r].snap.timestamp # NoTime
    /\ req[r].g.tRead - req[r].snap.timestamp = 2 * StateWindow

\* C14: a callback issues its writes only with a valid state, an access
\* token from the exchange and an existing user; a failure of the state
\* check, of the exchange or of the user lookup is answered with that
\* step's own error kind and without any write; the success redirect is
\* answered exactly when the credential row was inserted.
C14_CallbackOrder ==
  \A r \in Callbacks :
    /\ (req[r].pc \in {"cb_delete", "cb_insert"} \/ req[r].g.upd # Null) =>
          /\ req[r].user \in Users
          /\ req[r].g.tok # Null /\ req[r].g.tok.access_token # Null
          /\ RedirectOf(r) \in {"", "database_error", "calendarConnected"}
    /\ RedirectOf(r) = "invalid_state" =>
          req[r].g.tok = Null /\ req[r].g.upd = Null
    /\ RedirectOf(r) = "token_exchange" =>
          /\ ~Rejectable(req[r].snap, req[r].g.tRead)
          /\ req[r].g.tok = Null \/ req[r].g.tok.access_token = Null
          /\ req[r].g.upd = Null
    /\ RedirectOf(r) = "user_not_found" =>
          /\ req[r].g.tok # Null /\ req[r].g.tok.access_token # Null
          /\ req[r].g.upd = Null
    /\ req[r].pc = "done" =>
          (RedirectOf(r) = "calendarConnected" <=> req[r].g.wrote # Null)

\* a callback has inserted the row and answered the success redirect
C14_Witness ==
  \E r \in Callbacks :
    /\ RedirectOf(r) = "calendarConnected"
    /\ cred[req[r].user] = req[r].g.wrote

\* C15: no user ever has more than one credential row.
C15_OneRowPerUser == \A u \in Users : rows[u] <= 1

\* two callbacks of one user have both deleted; one has inserted its row
\* and the INSERT of the other is pending
C15_Witness ==
  \E r, q \in Callbacks :
    /\ r # q /\ req[r].user = req[q].user
    /\ req[r].g.wrote # Null /\ rows[req[r].user] = 1
    /\ req[q].pc = "cb_insert"

\* the empty string saveCredentials stores for a missing refresh token
NoRefreshToken == [u |-> "", n |-> 0]

\* C16: the row a successful callback inserts is made of the exchanged
\* tokens only: the new access token, the new refresh token or the empty
\* string, the new expiry or one hour from the exchange; no token of the
\* row it replaced is in it.
C16_OverwriteNotMerge ==
  \A r \in Callbacks :
    LET g == req[r].g
    IN g.wrote # Null =>
         /\ g.wrote.accessToken = g.tok.access_token
         /\ g.wrote.refreshToken =
              IF g.tok.refresh_token # Null THEN g.tok.refresh_token
              ELSE NoRefreshToken
         /\ g.wrote.expiryDate =
              IF g.tok.expiry_date # NoTime THEN g.tok.expiry_date
              ELSE g.tRefresh + DefaultExpiry
         /\ g.read # Null =>
              /\ g.wrote.accessToken # g.read.accessToken
              /\ g.read.refreshToken # NoRefreshToken =>
                   g.wrote.refreshToken # g.read.refreshToken

\* a connected user has reconnected with an exchange that returned no
\* refresh token
C16_Witness ==
  \E r \in Callbacks :
    /\ req[r].g.wrote # Null /\ req[r].g.read # Null
    /\ req[r].g.tok.refresh_token = Null
    /\ cred[req[r].user] = req[r].g.wrote

\* C17: a disconnect answers 200 only from a DELETE that leaves the user
\* without a row, answers 404 only when the user has no row and then
\* changes nothing, and for a user without a row answers 404 (or 500 when
\* the store fails) without issuing the DELETE; rows appear only by the
\* INSERT of a callback.
C17_DisconnectStep ==
  /\ \A r \in Reqs :
       (req[r].kind = "disconnect" /\ req[r].pc # req'[r].pc
          /\ req[r].pc \in {"d_count", "d_delete"}) =>
         /\ (req'[r].pc = "done" /\ req'[r].result = [status |-> 200]) =>
              /\ req[r].pc = "d_delete"
              /\ cred'[req[r].user] = Null /\ rows'[req[r].user] = 0
         /\ (req'[r].pc = "done" /\ req'[r].result = [status |-> 404]) =>
              /\ cred[req[r].user] = Null
              /\ cred' = cred /\ rows' = rows
         /\ (req[r].pc = "d_count" /\ cred[req[r].user] = Null) =>
              /\ req'[r].pc = "done"
              /\ req'[r].result \in {[status |-> 404], [status |-> 500]}
              /\ cred' = cred /\ rows' = rows
  /\ \A u \in Users :
       (cred[u] = Null /\ cred'[u] # Null) =>
          \E r \in Callbacks : req[r].user = u /\ req[r].pc = "cb_insert"

Responders == { r \in Reqs : req[r].kind \in {"respond", "uer"} }

\* the awaits of a response handler that follow its local update
MirrorPcs ==
  {"g_lookup", "g_refresh", "g_update", "r_get", "r_patch", "u_get",
   "u_email", "u_patch"}

\* C18: a response handler writes the attendee's new status to the local
\* store before it makes any provider call (the step that leaves the local
\* update without an error has stored the status, and a provider call is
\* only ever issued from an await after that update); from then on no step
\* of the handler, whatever the credential lookup, the refresh, the fetch or
\* the patch answer, touches the attendee table again, and the handler ends
\* with a success.
C18_Step ==
  \A r \in Reqs :
    (req[r].kind \in {"respond", "uer"} /\ req[r].pc # "done"
       /\ req'[r] # req[r]) =>
      /\ (req[r].pc \in {"r_update", "u_update"}
            /\ ~(req'[r].pc = "done" /\ req'[r].result.status = 500)) =>
           attendees'[req[r].ev][req[r].user] = req[r].resp
      /\ req'[r].calls # req[r].calls => req[r].pc \in MirrorPcs
      /\ req[r].pc \in MirrorPcs =>
           /\ attendees' = attendees
           /\ req'[r].pc \in MirrorPcs \cup {"done"}
           /\ req'[r].pc = "done" => req'[r].result.status = 200

C18_LocalBeforeProvider == [][C18_Step]_vars

\* a respond request whose credential run threw after a refresh attempt has
\* ended with 200 and the attendee's status is the one it stored
C18_Witness ==
  \E r \in Reqs :
    /\ req[r].kind = "respond" /\ req[r].pc = "done"
    /\ req[r].g.ret = "throw" /\ req[r].g.nRefresh = 1
    /\ req[r].result.status = 200
    /\ attendees[req[r].ev][req[r].user] = req[r].resp

\* C19: when the event has no googleEventId, or the responding attendee has
\* no email, a response handler that stored the new status ends normally
\* having made no provider call of any kind (no refresh, no fetch, no
\* patch), and the respond route reports 'not_updated'.
C19_NoProviderCall ==
  \A r \in Responders :
    (/\ req[r].pc \in MirrorPcs \cup {"done"}
     /\ req[r].snap \notin {Null, Unread}
     /\ attendees[req[r].ev][req[r].user] # "NONE"
     /\ (req[r].snap.googleEventId = Null \/ Email(req[r].user) = Null)) =>
      /\ req[r].calls = {}
      /\ (req[r].pc = "done" /\ req[r].result.status # 500) =>
           /\ req[r].result.status = 200
           /\ attendees[req[r].ev][req[r].user] \in {"ACCEPTED", "DECLINED"}
           /\ req[r].kind = "respond" => req[r].result.sync = "not_updated"

\* the response handlers whose patch is in flight
Patching == { r \in Responders : req[r].pc \in {"r_patch", "u_patch"} }

\* the provider's word for a local response status
ProviderStatus(response) ==
  CASE response = "ACCEPTED" -> "accepted"
    [] response = "DECLINED" -> "declined"
    [] response = "TENTATIVE" -> "tentative"

\* C20: the attendee list a response handler sends in its patch has the
\* length of the list it fetched and the same email at every position; an
\* entry whose email is not the responding attendee's is sent as fetched,
\* an entry with their email differs in the response status only, which is
\* the new one; when no entry has their email the list is sent unchanged.
C20_ListPreserved ==
  \A r \in Patching :
    LET got == req[r].ins.got
        sent == req[r].ins.sent
        email == Email(req[r].user)
    IN /\ Len(sent) = Len(got)
       /\ \A j \in 1..Len(got) :
            /\ sent[j].email = got[j].email
            /\ got[j].email # email => sent[j] = got[j]
            /\ got[j].email = email =>
                 sent[j] = [got[j] EXCEPT
                              !.responseStatus = ProviderStatus(req[r].resp)]
       /\ (\A j \in 1..Len(got) : got[j].email # email) => sent = got
       /\ \E c \in req[r].calls : c.op = "patch"

\* a patch is in flight for an attendee the fetched list does not contain
C20_Witness ==
  \E r \in Patching :
    /\ Len(req[r].ins.got) > 0
    /\ \A j \in 1..Len(req[r].ins.got) :
         req[r].ins.got[j].email # Email(req[r].user)

\* the runs of the cancel route
Cancels == { r \in Reqs : req[r].kind = "cancel" }

\* C21: a cancel request that succeeds on an event with an external id has
\* stored status CANCELLED and has also attempted a provider call for the
\* organizer that sets the external event to cancelled.
C21_CancelMirrored ==
  \A r \in Cancels :
    (/\ req[r].pc = "done" /\ req[r].result.status = 200
     /\ req[r].snap.googleEventId # Null) =>
      /\ events[req[r].ev].status = "CANCELLED"
      /\ \E c \in req[r].calls : c.for = req[r].snap.creatorId

\* the callers the claim allows to cancel event e
Authorized(e, u) ==
  events[e].creatorId = u \/ GroupRole(events[e].groupId, u) = "ADMIN"

\* C22: an event's status becomes CANCELLED only in the update step of a
\* cancel request made by the event's creator or by an ADMIN member of the
\* event's group; a cancel request by anyone else that finds the event ends
\* with 403 (or 500 when the lookup fails), and a step that ends a cancel
\* request with 403 leaves the event table and everything else unchanged.
C22_Step ==
  /\ \A e \in EventIds :
       (events[e] # Null /\ events[e].status # "CANCELLED"
          /\ events'[e].status = "CANCELLED") =>
         /\ events'[e] = [events[e] EXCEPT !.status = "CANCELLED"]
         /\ \E r \in Cancels :
              /\ req[r].pc = "x_update" /\ req'[r].pc = "done"
              /\ req[r].ev = e /\ Authorized(e, req[r].user)
  /\ \A r \in Cancels :
       /\ (req[r].pc = "x_find" /\ req'[r].pc # "x_find"
             /\ events[req[r].ev] # Null
             /\ events[req[r].ev].groupId = req[r].group
             /\ ~Authorized(req[r].ev, req[r].user)) =>
            /\ req'[r].pc = "done"
            /\ req'[r].result.status \in {403, 500}
       /\ (req[r].pc # "done" /\ req'[r].pc = "done"
             /\ req'[r].result.status = 403) =>
            /\ ~Authorized(req[r].ev, req[r].user)
            /\ UNCHANGED <<cred, rows, events, attendees, nEvents, gcal, handed>>
            /\ req'[r].calls = {}

C22_OnlyCreatorOrAdmin == [][C22_Step]_vars

\* u3, a plain member who did not create event 1, was answered 403 and the
\* event is not cancelled
C22_Witness ==
  \E r \in Cancels :
    /\ req[r].user = "u3" /\ req[r].ev = 1
    /\ req[r].pc = "done" /\ req[r].result.status = 403
    /\ events[1].status = "CONFIRMED"

\* the runs of the two creation entry points that have stored their event
Creations ==
  { r \in Reqs : req[r].kind \in {"create", "gcreate"} /\ req[r].ev # 0 }

\* the users the body of creation r invited
InvitedIds(r) == { req[r].atts[j] : j \in 1..Len(req[r].atts) }

\* C23: once a creation request, through either entry point, has stored
\* its event, the event has an Attendee row for every invited user and for
\* the creator, for nobody else, and each of these rows is PENDING (rows
\* are keyed by (event, user), so there is one per user).
C23_AttendeeRows ==
  \A r \in Creations :
    \A u \in Users :
      attendees[req[r].ev][u] =
        IF u \in InvitedIds(r) \/ u = req[r].user THEN "PENDING" ELSE "NONE"

\* the requests that validate a body
Validating ==
  { r \in Reqs : req[r].kind \in {"create", "gcreate", "respond"} }

\* C24: a create-event or respond request that fails validation is answered
\* 400 in its first step, which leaves the Event, Attendee and Credential
\* tables and the external calendars unchanged and makes no provider call;
\* no respond request gets past validation without an event id and a
\* response among ACCEPTED, DECLINED and TENTATIVE.
C24_Step ==
  \A r \in Validating \cup { q \in Reqs : req[q].pc = "idle" } :
    /\ (req[r].pc # "done" /\ req'[r].pc = "done"
          /\ req'[r].result.status = 400) =>
         /\ req[r].pc = "idle"
         /\ UNCHANGED <<cred, rows, events, attendees, nEvents, gcal, handed>>
         /\ req'[r].calls = {} /\ req'[r].g = NoRun
    /\ (req'[r].kind = "respond"
          /\ req'[r].pc \notin {"idle", "done", "gone"}) =>
         (req'[r].ev # 0 /\ req'[r].resp \in Responses)
    /\ (req'[r].kind = "respond" /\ req'[r].pc = "done"
          /\ req'[r].result.status # 400) =>
         (req'[r].ev # 0 /\ req'[r].resp \in Responses)

C24_RejectedBeforeMutation == [][C24_Step]_vars

\* a respond request was turned down with 400 while an event created
\* beside it is in the store
C24_Witness ==
  \E r \in Reqs :
    /\ req[r].kind = "respond" /\ req[r].pc = "done"
    /\ req[r].result.status = 400
    /\ nEvents = 2

\* request r is under way
Running(r) ==
  /\ req[r].kind \in {"create", "respond"}
  /\ req[r].pc \notin {"idle", "done", "gone"}

\* C25: every create-event and respond request that is under way
\* eventually returns, whether or not the provider answers its calls.
C25_EventuallyReturns ==
  \A r \in Reqs : Running(r) ~> (req[r].pc \in {"done", "gone"})

\* the run of request r read a stored credential that had expired
ReadExpired(r) ==
  /\ req[r].g.read \notin {Unread, Null}
  /\ req[r].g.read.expiryDate < req[r].g.tRead

\* the credential row of u holds the access token and the expiry that the
\* refresh response of request r carried
HoldsPairOf(u, r) ==
  /\ cred[u].accessToken = req[r].g.tok.access_token
  /\ cred[u].expiryDate = req[r].g.tok.expiry_date

\* C26: when two requests are running for the same user and both have read
\* an expired credential, each makes its own refresh call, and the two
\* responses carry different access tokens; once both have stored their
\* result, the row holds the access token and the expiry of one of the two
\* responses, both taken from the same response.
C26_PairOfOneResponse ==
  \A u \in Users : \A r1, r2 \in Runs :
    (/\ r1 # r2
     /\ req[r1].g.user = u /\ req[r2].g.user = u
     /\ ReadExpired(r1) /\ ReadExpired(r2)) =>
      /\ req[r1].g.nRefresh = 1 /\ req[r2].g.nRefresh = 1
      /\ (Refreshed(req[r1].g) /\ Refreshed(req[r2].g)) =>
           req[r1].g.tok.access_token # req[r2].g.tok.access_token
      /\ (req[r1].g.wrote # Null /\ req[r2].g.wrote # Null) =>
           /\ cred[u] # Null
           /\ HoldsPairOf(u, r1) \/ HoldsPairOf(u, r2)

\* two requests refreshed u1's expired credential at different times, both
\* stored their result, and the row holds the pair of the response that was
\* obtained first
C26_Witness ==
  \E r1, r2 \in Runs :
    /\ r1 # r2
    /\ req[r1].g.user = "u1" /\ req[r2].g.user = "u1"
    /\ ReadExpired(r1) /\ ReadExpired(r2)
    /\ req[r1].g.wrote # Null /\ req[r2].g.wrote # Null
    /\ req[r1].g.tRefresh < req[r2].g.tRefresh
    /\ HoldsPairOf("u1", r1)

\* a state parameter for user u that the auth-url route handed out no
\* longer than the validity window before time t
HandedFor(u, t) ==
  \E s \in handed :
    s.userId = u /\ s.timestamp <= t /\ t - s.timestamp <= StateWindow

\* C27: a callback writes a Credential row for user U only when the
\* auth-url route has handed out a state parameter for U within the 15
\* minutes before the callback validated its state.
C27_OnlyOwnAuthorization ==
  \A r \in Callbacks :
    req[r].g.wrote # Null => HandedFor(req[r].user, req[r].g.tRead)

\* C28: when a callback for a user who had a Credential row ends with an
\* error of the persist step, the row it found is still the user's row.
C28_FailedPersistKeepsRow ==
  \A r \in Callbacks :
    (/\ req[r].pc = "done"
     /\ RedirectOf(r) \in {"database_error", "database_setup"}
     /\ req[r].g.read \notin {Unread, Null}) =>
      cred[req[r].user] = req[r].g.read

\* C29: where no callback runs, a user without a Credential row stays
\* without one: no step creates a row, and a refresh that was in flight
\* when the row was deleted, and then persists its result, leaves the table
\* as it is (getCalendarClient ends with an error, the events route goes
\* on with the tokens it holds).
C29_Step ==
  /\ \A u \in Users : cred[u] = Null => (cred'[u] = Null /\ rows'[u] = 0)
  /\ \A r \in Runs :
       (/\ req[r].pc \in {"g_update", "l_update"} /\ req'[r].pc # req[r].pc
        /\ cred[req[r].g.user] = Null) =>
         /\ cred' = cred /\ rows' = rows
         /\ req'[r].g.wrote = Null
         /\ req[r].pc = "g_update" => req'[r].g.ret = "throw"

C29_NoResurrection == [][C29_Step]_vars

\* the events route refreshed a credential it had read, the row was
\* deleted meanwhile, the UPDATE has run, and the user has no row
C29_Witness ==
  \E r \in Runs :
    /\ req[r].g.for = "list" /\ req[r].pc = "l_list"
    /\ ReadExpired(r) /\ Refreshed(req[r].g)
    /\ req[r].g.wrote = Null
    /\ cred[req[r].g.user] = Null

\* the runs of the respond route
Responds == { r \in Reqs : req[r].kind = "respond" }

\* C30: a step of a respond request changes no Attendee row other than the
\* one of (event, caller) and never the Event table; the step that stores
\* the response sets that row to the response of the body; a caller
\* without an Attendee row on the event is answered 403 (500 when the
\* lookup fails), and a request answered 403 has changed no row and made
\* no provider call.
C30_Step ==
  \A r \in Responds :
    req'[r] # req[r] =>
      /\ events' = events
      /\ \A e \in EventIds, u \in Users :
           attendees'[e][u] # attendees[e][u] =>
             /\ e = req[r].ev /\ u = req[r].user
             /\ req[r].pc = "r_update"
             /\ attendees'[e][u] = req[r].resp
      /\ (req[r].pc = "r_find" /\ events[req[r].ev] # Null
            /\ attendees[req[r].ev][req[r].user] = "NONE") =>
           /\ req'[r].pc = "done"
           /\ req'[r].result.status \in {403, 500}
      /\ (req[r].pc # "done" /\ req'[r].pc = "done"
            /\ req'[r].result.status = 403) =>
           /\ attendees[req[r].ev][req[r].user] = "NONE"
           /\ attendees' = attendees
           /\ req'[r].calls = {} /\ req'[r].g = NoRun

C30_OneAttendeeRow == [][C30_Step]_vars

\* u2 has accepted event 1 while u3's row is untouched, and u1, who is not
\* an attendee of it, was answered 403
C30_Witness ==
  \E r \in Responds :
    /\ req[r].user = "u1" /\ req[r].ev = 1
    /\ req[r].pc = "done" /\ req[r].result.status = 403
    /\ attendees[1] = [u1 |-> "NONE", u2 |-> "ACCEPTED", u3 |-> "PENDING"]

====
